---- MODULE Spec2Model ----
(***************************************************************************)
(* Model of solve_constraint_core (src/main.py): one call drives the       *)
(* MiniZinc engine and normalises its outcome, or its failure, into a      *)
(* SolveResult.  The engine (minizinc.Solver / Instance / Result) is the   *)
(* environment: its outcome is chosen nondeterministically at the solve    *)
(* step.  Floats that hold durations are kept in microseconds.             *)
(***************************************************************************)
EXTENDS Integers, Sequences, FiniteSets, TLC

\* ---------------------------------------------------------------- bounds
MaxSols == 2        \* longest solution list the engine hands back
MaxTimeout == 2     \* largest timeout (seconds) a request carries

\* ------------------------------------------------------ optional values
None == [isNone |-> TRUE]
Some(v) == [isNone |-> FALSE, v |-> v]

\* ------------------------------------------------- engine status (Enum)
ST_ERROR == 1
ST_UNKNOWN == 2
ST_UNBOUNDED == 3
ST_UNSATISFIABLE == 4
ST_SATISFIED == 5
ST_ALL_SOLUTIONS == 6
ST_OPTIMAL_SOLUTION == 7
Status == ST_ERROR..ST_OPTIMAL_SOLUTION

\* A broken str(): the qualified member name instead of the bare name.
StrStatusQualified(st) ==
  CASE st = ST_ERROR -> "Status.ERROR"
    [] st = ST_UNKNOWN -> "Status.UNKNOWN"
    [] st = ST_UNBOUNDED -> "Status.UNBOUNDED"
    [] st = ST_UNSATISFIABLE -> "Status.UNSATISFIABLE"
    [] st = ST_SATISFIED -> "Status.SATISFIED"
    [] st = ST_ALL_SOLUTIONS -> "Status.ALL_SOLUTIONS"
    [] st = ST_OPTIMAL_SOLUTION -> "Status.OPTIMAL_SOLUTION"

\* str(result.status): the member's name.
StrStatus(st) ==
  CASE st = ST_ERROR -> "ERROR"
    [] st = ST_UNKNOWN -> "UNKNOWN"
    [] st = ST_UNBOUNDED -> "UNBOUNDED"
    [] st = ST_UNSATISFIABLE -> "UNSATISFIABLE"
    [] st = ST_SATISFIED -> "SATISFIED"
    [] st = ST_ALL_SOLUTIONS -> "ALL_SOLUTIONS"
    [] st = ST_OPTIMAL_SOLUTION -> "OPTIMAL_SOLUTION"

\* ------------------------------------------------------------ durations
MICRO == 1000000
DAY == 86400

\* datetime.timedelta(seconds=s), normalised as Python normalises it.
Timedelta(s) == [days |-> s \div DAY, seconds |-> s % DAY, microseconds |-> 0]

\* The inverse constructor: timedelta(microseconds=us).
TimedeltaOfMicros(us) ==
  [days |-> (us \div MICRO) \div DAY,
   seconds |-> (us \div MICRO) % DAY,
   microseconds |-> us % MICRO]

\* A broken total_seconds(): reads .seconds, which has no fractional part.
TotalSecondsMutant(td) == td.seconds * MICRO

\* timedelta.total_seconds(), in microseconds.
TotalSeconds(td) == (td.days * DAY + td.seconds) * MICRO + td.microseconds

\* float(n) of a number of seconds, in microseconds.
Float(n) == n * MICRO

\* ---------------------------------------------- engine solution records
\* Attribute names are character sequences so that startswith is computed.
K_x == <<"x">>
K_q == <<"q">>
K_output == <<"_", "o", "u", "t">>
K_objective == <<"o", "b", "j", "e", "c", "t", "i", "v", "e">>

\* The __dict__ of the solution objects the engine can hand back.
Rec1 == (K_x :> 1) @@ (K_output :> 0)
Rec2 == (K_x :> 2) @@ (K_q :> 1)
Rec3 == (K_x :> 3) @@ (K_objective :> 7) @@ (K_output :> 0)
Records == {Rec1, Rec2, Rec3}

StartsWithUnderscore(key) == Len(key) > 0 /\ key[1] = "_"

\* The non-private attributes of a solution object, copied by name.
ExtractVariables(d) ==
  [k \in {kk \in DOMAIN d : ~StartsWithUnderscore(kk)} |-> d[k]]

\* sol.objective if hasattr(sol, 'objective') else None
ObjectiveOf(d) == IF K_objective \in DOMAIN d THEN Some(d[K_objective]) ELSE None

\* Solution(variables=..., objective=..., is_optimal=...)
MakeSolution(d, opt) ==
  [variables |-> ExtractVariables(d), objective |-> ObjectiveOf(d), is_optimal |-> opt]

\* ------------------------------------------------- engine Result object
\* result.solution is None, one solution object, or a list of them.
NoSolution == [kind |-> "none"]
OneSolution(d) == [kind |-> "one", rec |-> d]
ListSolution(ds) == [kind |-> "list", recs |-> ds]

\* len(result), which also decides bool(result).
ResultLen(sol) ==
  CASE sol.kind = "none" -> 0
    [] sol.kind = "one" -> 1
    [] sol.kind = "list" -> Len(sol.recs)

\* bool(result.solution)
SolutionTruthy(sol) ==
  CASE sol.kind = "none" -> FALSE
    [] sol.kind = "one" -> TRUE
    [] sol.kind = "list" -> Len(sol.recs) > 0

\* hasattr(result.solution, '__dict__'): only a solution object has one.
HasDict(sol) == sol.kind = "one"

\* ------------------------------------------------------------ exceptions
LookupFailure == [cls |-> "LookupError", msg |-> "No configuration found"]
BindFailure == [cls |-> "MiniZincError", msg |-> "undefined identifier"]
EngineFailures ==
  {[cls |-> "MiniZincError", msg |-> "syntax error"],
   [cls |-> "AssertionError", msg |-> ""]}
AttributeFailure == [cls |-> "AttributeError", msg |-> "no attribute '__dict__'"]
TypeFailure == [cls |-> "TypeError", msg |-> "attribute name must be string"]
NoException == [cls |-> "none", msg |-> ""]

\* The classes that derive from Exception.
ExceptionClasses ==
  {"LookupError", "MiniZincError", "AssertionError", "AttributeError", "TypeError"}

\* A handler that is too narrow: only engine errors are caught.
CatchesMutant(e) == e.cls = "MiniZincError"

\* except Exception
Catches(e) == e.cls \in ExceptionClasses

\* ------------------------------------------------------ result processing
RECURSIVE MapSolutions(_, _)
MapSolutions(recs, opt) ==
  IF recs = <<>> THEN <<>>
  ELSE <<MakeSolution(Head(recs), opt)>> \o MapSolutions(Tail(recs), opt)

\* An enumeration that inserts each solution at the front of the list.
EnumeratedSolutionsReversed(recs) ==
  [i \in 1..Len(recs) |-> MakeSolution(recs[Len(recs) + 1 - i], FALSE)]

\* An enumeration that flags every solution optimal.
EnumeratedSolutionsOptimal(recs) == MapSolutions(recs, TRUE)

\* for sol in result: solutions.append(Solution(..., is_optimal=False))
EnumeratedSolutions(recs) == MapSolutions(recs, FALSE)

\* A single-solution branch that drops the solution.
SingleSolutionDropped(d, st) == <<>>

\* The single solution of a SATISFIED / ALL_SOLUTIONS outcome.
SingleSolution(d, st) == <<MakeSolution(d, st = ST_OPTIMAL_SOLUTION)>>

\* An optimal branch that forgets the flag.
OptimalSolutionUnflagged(d) == <<MakeSolution(d, FALSE)>>

\* The solution of an OPTIMAL_SOLUTION outcome.
OptimalSolution(d) == <<MakeSolution(d, TRUE)>>

Raised(e) == [raised |-> TRUE, exc |-> e, solutions |-> <<>>]
Returned(sols) == [raised |-> FALSE, exc |-> NoException, solutions |-> sols]

\* "Process the results": the solutions list, or the exception raised.
ProcessResults(all_solutions, res) ==
  IF res.status = ST_SATISFIED \/ res.status = ST_ALL_SOLUTIONS
  THEN IF all_solutions /\ ResultLen(res.solution) > 0
       THEN IF res.solution.kind = "list"
            THEN Returned(EnumeratedSolutions(res.solution.recs))
            ELSE Raised(TypeFailure)
       ELSE IF SolutionTruthy(res.solution)
            THEN IF HasDict(res.solution)
                 THEN Returned(SingleSolution(res.solution.rec, res.status))
                 ELSE Raised(AttributeFailure)
            ELSE Returned(<<>>)
  ELSE IF res.status = ST_OPTIMAL_SOLUTION
       THEN IF HasDict(res.solution)
            THEN Returned(OptimalSolution(res.solution.rec))
            ELSE Raised(AttributeFailure)
       ELSE Returned(<<>>)

\* ------------------------------------------------------------ statistics
NoStat == [kind |-> "absent"]
TimedeltaStat(td) == [kind |-> "timedelta", td |-> td]
NumberStat(n) == [kind |-> "number", n |-> n]

\* "Convert solve_time from timedelta to float (seconds)"
SolveTimeValue(stat) ==
  CASE stat.kind = "absent" -> 0
    [] stat.kind = "timedelta" -> TotalSeconds(stat.td)
    [] stat.kind = "number" -> Float(stat.n)

\* ------------------------------------------------------------ SolveResult
\* A normal return that sets error to an empty string instead of None.
NormalResultEmptyError(sols, st, t) ==
  [solutions |-> sols, status |-> StrStatus(st), solve_time |-> t,
   num_solutions |-> Len(sols), error |-> Some("")]

\* The SolveResult of the normal return.
NormalResult(sols, st, t) ==
  [solutions |-> sols, status |-> StrStatus(st), solve_time |-> t,
   num_solutions |-> Len(sols), error |-> None]

\* The SolveResult of the except handler.
ErrorResult(e) ==
  [solutions |-> <<>>, status |-> "ERROR", solve_time |-> 0,
   num_solutions |-> 0, error |-> Some(e.msg)]

\* --------------------------------------------------------- truthiness
\* "if problem.timeout:" -- None and 0 are both falsy.
TimeoutTruthy(t) == ~t.isNone /\ t.v # 0

\* "if problem.data:" -- None and the empty dict are both falsy.
DataTruthy(d) == ~d.isNone /\ DOMAIN d.v # {}

\* ------------------------------------------------------------- requests
Solvers == {"gecode", "nosuch"}
InstalledSolvers == {"gecode"}
EmptyDict == <<>>
DataValues == {None, Some(EmptyDict), Some("n" :> 4)}
TimeoutValues == {None} \cup {Some(t) : t \in 0..MaxTimeout}

\* ConstraintModel (the model text is opaque to this layer)
ConstraintModel ==
  [solver : Solvers, data : DataValues, all_solutions : BOOLEAN,
   timeout : TimeoutValues]

\* ------------------------------------------------------- engine outcomes
RECURSIVE SeqsUpTo(_, _)
SeqsUpTo(S, n) ==
  IF n = 0 THEN {<<>>}
  ELSE LET shorter == SeqsUpTo(S, n - 1)
       IN shorter \cup {Append(s, x) : s \in {t \in shorter : Len(t) = n - 1}, x \in S}

\* Shapes of result.solution.  solve_async collects the solutions into a list
\* when all_solutions is set ("result is iterable", possibly empty) and
\* otherwise keeps the last solution object, or None when none was found.
\* Status and shape are otherwise left independent of each other.
SolutionShapes(all_solutions) ==
  IF all_solutions
  THEN {ListSolution(ds) : ds \in SeqsUpTo(Records, MaxSols)}
  ELSE {NoSolution} \cup {OneSolution(d) : d \in Records}

\* Solver-reported durations, in microseconds.
ReportedMicros == {0, 1, 500000, 2 * MICRO + 250000}
ReportedSeconds == {0, 3}
SolveTimeStats ==
  {NoStat} \cup {TimedeltaStat(TimedeltaOfMicros(us)) : us \in ReportedMicros}
           \cup {NumberStat(n) : n \in ReportedSeconds}

\* A run stopped by the time limit has not exhausted the search.
StoppedStatuses == {ST_UNKNOWN, ST_SATISFIED}

NoResult == [status |-> 0, solution |-> NoSolution, solveTime |-> NoStat]
NotInvoked == [called |-> FALSE, all_solutions |-> FALSE, time_limit |-> None]

\* ------------------------------------------------------------------ state
VARIABLES
  pc,                \* position of the call inside solve_constraint_core
  problem,           \* the ConstraintModel of the call
  instance,          \* parameters bound on the minizinc.Instance
  invoked,           \* how instance.solve_async was invoked
  result,            \* the engine's Result
  timed_out,         \* the engine stopped because the time limit elapsed
  solutions,         \* local list "solutions"
  solve_time_value,  \* local "solve_time_value"
  exc,               \* the exception in flight
  ret                \* the SolveResult handed to the caller

vars == <<pc, problem, instance, invoked, result, timed_out, solutions,
          solve_time_value, exc, ret>>

NotReturned == [returned |-> FALSE]

Init ==
  /\ pc = "idle"
  /\ problem = [solver |-> "gecode", data |-> None, all_solutions |-> FALSE,
                timeout |-> None]
  /\ instance = EmptyDict
  /\ invoked = NotInvoked
  /\ result = NoResult
  /\ timed_out = FALSE
  /\ solutions = <<>>
  /\ solve_time_value = 0
  /\ exc = NoException
  /\ ret = NotReturned

\* A caller awaits solve_constraint_core(p); every call starts afresh.
Call ==
  /\ pc \in {"idle", "done"}
  /\ \E p \in ConstraintModel : problem' = p
  /\ pc' = "lookup"
  /\ instance' = EmptyDict
  /\ invoked' = NotInvoked
  /\ result' = NoResult
  /\ timed_out' = FALSE
  /\ solutions' = <<>>
  /\ solve_time_value' = 0
  /\ exc' = NoException
  /\ ret' = NotReturned

\* solver = minizinc.Solver.lookup(problem.solver)
Lookup ==
  /\ pc = "lookup"
  /\ IF problem.solver \in InstalledSolvers
     THEN pc' = "bind" /\ exc' = exc
     ELSE pc' = "except" /\ exc' = LookupFailure
  /\ UNCHANGED <<problem, instance, invoked, result, timed_out, solutions,
                 solve_time_value, ret>>

\* Model(), add_string, Instance(solver, model), instance[key] = value
Bind ==
  /\ pc = "bind"
  /\ \E ok \in BOOLEAN :
       IF ok
       THEN /\ pc' = "solve"
            /\ instance' = IF DataTruthy(problem.data) THEN problem.data.v ELSE EmptyDict
            /\ exc' = exc
       ELSE /\ pc' = "except"
            /\ instance' = instance
            /\ exc' = BindFailure
  /\ UNCHANGED <<problem, invoked, result, timed_out, solutions,
                 solve_time_value, ret>>

\* The arguments solve_async is awaited with.
SolveArguments(p) ==
  IF TimeoutTruthy(p.timeout)
  THEN [called |-> TRUE, all_solutions |-> p.all_solutions,
        time_limit |-> Some(Timedelta(p.timeout.v))]
  ELSE [called |-> TRUE, all_solutions |-> p.all_solutions, time_limit |-> None]

\* result = await instance.solve_async(...): the engine answers or raises.
Solve ==
  /\ pc = "solve"
  /\ invoked' = SolveArguments(problem)
  /\ \/ \E e \in EngineFailures :
          /\ exc' = e
          /\ pc' = "except"
          /\ UNCHANGED <<result, timed_out>>
     \/ \E st \in Status, sol \in SolutionShapes(invoked'.all_solutions),
           stat \in SolveTimeStats, stopped \in BOOLEAN :
          /\ stopped => (~invoked'.time_limit.isNone /\ st \in StoppedStatuses)
          /\ result' = [status |-> st, solution |-> sol, solveTime |-> stat]
          /\ timed_out' = stopped
          /\ exc' = exc
          /\ pc' = "process"
  /\ UNCHANGED <<problem, instance, solutions, solve_time_value, ret>>

\* "Process the results" (the status branches and the extraction loops)
Process ==
  /\ pc = "process"
  /\ LET out == ProcessResults(problem.all_solutions, result)
     IN IF out.raised
        THEN pc' = "except" /\ exc' = out.exc /\ solutions' = solutions
        ELSE pc' = "stats" /\ exc' = exc /\ solutions' = out.solutions
  /\ UNCHANGED <<problem, instance, invoked, result, timed_out,
                 solve_time_value, ret>>

\* "Convert solve_time from timedelta to float (seconds)"
Stats ==
  /\ pc = "stats"
  /\ solve_time_value' = SolveTimeValue(result.solveTime)
  /\ pc' = "return"
  /\ UNCHANGED <<problem, instance, invoked, result, timed_out, solutions,
                 exc, ret>>

\* return SolveResult(solutions=solutions, status=str(result.status), ...)
Return ==
  /\ pc = "return"
  /\ ret' = NormalResult(solutions, result.status, solve_time_value)
  /\ pc' = "done"
  /\ UNCHANGED <<problem, instance, invoked, result, timed_out, solutions,
                 solve_time_value, exc>>

\* except Exception as e: return SolveResult(... status="ERROR" ...)
Except ==
  /\ pc = "except"
  /\ IF Catches(exc)
     THEN ret' = ErrorResult(exc) /\ pc' = "done"
     ELSE ret' = ret /\ pc' = "escaped"
  /\ UNCHANGED <<problem, instance, invoked, result, timed_out, solutions,
                 solve_time_value, exc>>

Next == Call \/ Lookup \/ Bind \/ Solve \/ Process \/ Stats \/ Return \/ Except

Spec == Init /\ [][Next]_vars

TypeOK ==
  /\ pc \in {"idle", "lookup", "bind", "solve", "process", "stats", "return",
             "except", "done", "escaped"}
  /\ problem \in ConstraintModel
  /\ pc = "done" <=> ret # NotReturned

\* ------------------------------------------------------------- properties
CanonicalStatuses ==
  {"SATISFIED", "ALL_SOLUTIONS", "OPTIMAL_SOLUTION", "UNSATISFIABLE", "UNKNOWN",
   "ERROR"}
RecognizedStatuses ==
  {ST_SATISFIED, ST_ALL_SOLUTIONS, ST_OPTIMAL_SOLUTION, ST_UNSATISFIABLE,
   ST_UNKNOWN, ST_ERROR}
SolutionStatuses == {ST_SATISFIED, ST_ALL_SOLUTIONS, ST_OPTIMAL_SOLUTION}

Failed == exc # NoException
EngineAnswered == result # NoResult
ErrorNonEmpty(r) == IF r.error.isNone THEN FALSE ELSE r.error.v # ""

\* C1: a failure of the lookup, the binding, the solve or the extraction
\* never escapes the call; the caller gets solutions=[], status="ERROR",
\* solve_time=0.0, num_solutions=0 and error = the failure's message.
C1_FailureBecomesErrorResult ==
  /\ pc # "escaped"
  /\ (pc = "done" /\ Failed) =>
       ret = [solutions |-> <<>>, status |-> "ERROR", solve_time |-> 0,
              num_solutions |-> 0, error |-> Some(exc.msg)]

C1_Witness ==
  /\ pc = "done"
  /\ exc = AttributeFailure
  /\ result.status = ST_OPTIMAL_SOLUTION
  /\ ret.status = "ERROR"

\* C2: in every returned SolveResult, status = "ERROR" exactly when error is
\* non-empty, and every other status has error absent.
C2_ErrorIffStatusError ==
  pc = "done" =>
    /\ (ret.status = "ERROR") <=> ErrorNonEmpty(ret)
    /\ (ret.status # "ERROR") => ret.error = None

\* C3: the returned status is one of the six canonical strings whenever the
\* engine status is a recognized value (or the call failed), and is the
\* literal name of the engine value only when that value is unrecognized.
C3_StatusCanonicalOrLiteral ==
  pc = "done" =>
    /\ (Failed \/ result.status \in RecognizedStatuses) =>
         ret.status \in CanonicalStatuses
    /\ (ret.status \notin CanonicalStatuses) =>
         (~Failed /\ result.status = ST_UNBOUNDED /\ ret.status = "UNBOUNDED")

C3_Witness ==
  /\ pc = "done"
  /\ result.status = ST_UNBOUNDED
  /\ ret.status = "UNBOUNDED"

\* C4: a returned status OPTIMAL_SOLUTION comes with exactly one solution,
\* and that solution is flagged optimal, for every all_solutions and timeout.
C4_OptimalHasOneOptimalSolution ==
  (pc = "done" /\ ret.status = "OPTIMAL_SOLUTION") =>
    /\ Len(ret.solutions) = 1
    /\ ret.solutions[1].is_optimal = TRUE

C4_Witness ==
  /\ pc = "done"
  /\ ret.status = "OPTIMAL_SOLUTION"
  /\ ~problem.timeout.isNone
  /\ Len(ret.solutions) = 1

\* C5: with all_solutions=true no returned solution is flagged optimal,
\* whatever status the engine reported.
C5_EnumerationNeverOptimal ==
  (pc = "done" /\ problem.all_solutions) =>
    \A i \in 1..Len(ret.solutions) : ret.solutions[i].is_optimal = FALSE

C5_Witness ==
  /\ pc = "done"
  /\ problem.all_solutions
  /\ Len(ret.solutions) >= 2
  /\ ret.num_solutions = Len(ret.solutions)

\* C6: in enumeration mode with engine status SATISFIED or ALL_SOLUTIONS and
\* a non-empty outcome, the returned solutions are the engine's records, one
\* for one and in the engine's order, also when the time limit stopped the run.
C6_EnumerationKeepsEveryRecordInOrder ==
  (/\ pc = "done"
   /\ problem.all_solutions
   /\ result.status \in {ST_SATISFIED, ST_ALL_SOLUTIONS}
   /\ ResultLen(result.solution) > 0) =>
    /\ ret.status # "ERROR"
    /\ ret.num_solutions > 0
    /\ ret.num_solutions = Len(result.solution.recs)
    /\ Len(ret.solutions) = Len(result.solution.recs)
    /\ \A i \in 1..Len(ret.solutions) :
         /\ ret.solutions[i].variables = ExtractVariables(result.solution.recs[i])
         /\ ret.solutions[i].objective = ObjectiveOf(result.solution.recs[i])

C6_Witness ==
  /\ pc = "done"
  /\ timed_out
  /\ problem.all_solutions
  /\ result.status = ST_SATISFIED
  /\ Len(ret.solutions) >= 2
  /\ ret.solutions[1] # ret.solutions[2]

\* C7: a resolvable solver, all_solutions=false and an engine run that found
\* a satisfying solution (status SATISFIED) give status # "ERROR" and at
\* least one solution, with and without a timeout.
C7_SatisfiedRunReturnsASolution ==
  (/\ pc = "done"
   /\ problem.solver \in InstalledSolvers
   /\ ~problem.all_solutions
   /\ result.status = ST_SATISFIED
   /\ result.solution # NoSolution) =>
    /\ ret.status # "ERROR"
    /\ ret.num_solutions >= 1

C7_Witness ==
  /\ pc = "done"
  /\ problem.solver = "gecode"
  /\ ~problem.all_solutions
  /\ problem.timeout = None
  /\ result.status = ST_SATISFIED
  /\ ret.num_solutions = 1

\* C8: an engine that answers with a status other than SATISFIED,
\* ALL_SOLUTIONS or OPTIMAL_SOLUTION yields zero solutions, the status passed
\* through and no error; the call does not turn it into "ERROR".
C8_OtherStatusPassesThrough ==
  (pc = "done" /\ EngineAnswered /\ result.status \notin SolutionStatuses) =>
    /\ ret.solutions = <<>>
    /\ ret.num_solutions = 0
    /\ ret.error = None
    /\ (result.status = ST_UNSATISFIABLE => ret.status = "UNSATISFIABLE")
    /\ (result.status = ST_UNKNOWN => ret.status = "UNKNOWN")
    /\ (result.status = ST_UNBOUNDED => ret.status = "UNBOUNDED")
    /\ (result.status # ST_ERROR => ret.status # "ERROR")

C8_Witness ==
  /\ pc = "done"
  /\ timed_out
  /\ result.status = ST_UNKNOWN
  /\ ret.status = "UNKNOWN"
  /\ ret.num_solutions = 0

C10_TimeoutIsPassedToEngine ==
  invoked.called =>
    /\ invoked.all_solutions = problem.all_solutions
    /\ invoked.time_limit.isNone <=> problem.timeout.isNone
    /\ IF problem.timeout.isNone \/ invoked.time_limit.isNone THEN TRUE
       ELSE TotalSeconds(invoked.time_limit.v) = problem.timeout.v * MICRO
====
